---- MODULE Spec2Model ----
(***************************************************************************)
(* The <pagination-wc> web component of src/pagination-wc.js as a state    *)
(* machine: the fields of PaginationWebComponent, the part of its shadow   *)
(* DOM the methods read and write, the host's attribute store, window      *)
(* width and task queue, and the page's pagechange listener.  One action   *)
(* per handler, each running the whole handler, the listener it calls       *)
(* included (the component is single-threaded and synchronous).             *)
(***************************************************************************)
EXTENDS Integers, Sequences, FiniteSets, TLC

VARIABLES
    itemsPerPage,     \* this.itemsPerPage
    prevText,         \* this.prevText (sequence of characters)
    nextText,         \* this.nextText
    currentPage,      \* this.currentPage
    totalPages,       \* this.totalPages
    items,            \* this.items: style.display of each element of the snapshot
    pageButtons,      \* children of .numbers-container
    prevDisabled,     \* .prev-btn disabled
    nextDisabled,     \* .next-btn disabled
    controlsDisplay,  \* .pagination-controls style.display
    prevLabel,        \* .prev-text textContent
    nextLabel,        \* .next-text textContent
    attributes,       \* the host's attribute store of the element
    innerWidth,       \* window.innerWidth
    timers,           \* setTimeout callbacks of connectedCallback not yet run
    dispatched,       \* pagechange events dispatched by the last handler, in order
    last,             \* the last handler that ran, with its input
    listener,         \* what the page's pagechange listeners do, "none" without one
    loads,            \* loadPageData() calls of the listener awaiting their fetch
    observed,         \* what an observing listener saw at each delivery of the last handler
    reentered         \* a listener changed the component inside the last handler

vars == <<itemsPerPage, prevText, nextText, currentPage, totalPages, items,
          pageButtons, prevDisabled, nextDisabled, controlsDisplay, prevLabel,
          nextLabel, attributes, innerWidth, timers, dispatched, last,
          listener, loads, observed, reentered>>

----------------------------------------------------------------------------
(* Bounds of the model *)

\* largest number of slotted elements the host provides
MaxItems == 10
\* largest number of slotted elements the configuration host provides
MaxConfigItems == 3
\* largest number of pending connectedCallback timers
MaxTimers == 1
\* largest number of slotted elements the attaching host provides
MaxAttachmentItems == 4
\* largest number of slotted elements the observed host provides
MaxObserverItems == 3
\* largest number of loadPageData() calls awaiting their fetch
MaxLoads == 1

----------------------------------------------------------------------------
(* JavaScript values *)

\* an attribute value: null (attribute absent) or a string of characters
Null == [isNull |-> TRUE, chars |-> <<>>]
Str(s) == [isNull |-> FALSE, chars |-> s]

Digits == <<"0", "1", "2", "3", "4", "5", "6", "7", "8", "9">>
DigitValue == [ch \in {Digits[d] : d \in 1..10} |-> (CHOOSE d \in 1..10 : Digits[d] = ch) - 1]
IsDigit(ch) == ch \in DOMAIN DigitValue
DigitVal(ch) == DigitValue[ch]
IsSpace(ch) == ch = " "

\* a JavaScript number: an integer or NaN
NaN == [isNaN |-> TRUE, n |-> 0]
Num(n) == [isNaN |-> FALSE, n |-> n]

\* String(n) for an integer n >= 0
RECURSIVE NatToString(_)
NatToString(n) ==
    IF n < 10 THEN <<Digits[n + 1]>>
    ELSE NatToString(n \div 10) \o <<Digits[(n % 10) + 1]>>

\* String(n) for an integer
NumberToString(n) == IF n < 0 THEN <<"-">> \o NatToString(-n) ELSE NatToString(n)

RECURSIVE SkipSpaces(_)
SkipSpaces(s) ==
    IF s # <<>> /\ IsSpace(Head(s)) THEN SkipSpaces(Tail(s)) ELSE s

\* the value of the longest prefix of decimal digits of s, read after acc
RECURSIVE ReadDigits(_, _)
ReadDigits(s, acc) ==
    IF s # <<>> /\ IsDigit(Head(s))
    THEN ReadDigits(Tail(s), 10 * acc + DigitVal(Head(s)))
    ELSE acc

\* parseInt(v) without a radix, for decimal input: leading white space is
\* skipped, an optional sign is read, then the longest prefix of digits;
\* NaN when there is no digit.  parseInt(null) parses the string "null".
ParseIntChars(s) ==
    LET t == SkipSpaces(s)
        neg == t # <<>> /\ Head(t) = "-"
        u == IF t # <<>> /\ Head(t) \in {"-", "+"} THEN Tail(t) ELSE t
    IN IF u = <<>> \/ ~IsDigit(Head(u)) THEN NaN
       ELSE Num(IF neg THEN -ReadDigits(u, 0) ELSE ReadDigits(u, 0))

parseInt(v) == IF v.isNull THEN ParseIntChars(<<"n", "u", "l", "l">>) ELSE ParseIntChars(v.chars)

\* button.dataset.page = i stores String(i); the strings of the page numbers
\* the model can reach are computed once
DatasetStrings == [i \in 1..(MaxItems + 1) |-> NumberToString(i)]
toDataset(i) == IF i \in DOMAIN DatasetStrings THEN DatasetStrings[i] ELSE NumberToString(i)

\* parseInt(button.dataset.page), the parses of those strings computed once
DatasetParses == [s \in {DatasetStrings[i] : i \in DOMAIN DatasetStrings} |-> ParseIntChars(s)]
parseDataset(s) == IF s \in DOMAIN DatasetParses THEN DatasetParses[s] ELSE ParseIntChars(s)

\* x || d for a number x: NaN and 0 are falsy
NumberOr(x, d) == IF x.isNaN \/ x.n = 0 THEN d ELSE x.n

\* v || d for a string-or-null v: null and "" are falsy
StringOr(v, d) == IF v.isNull \/ v.chars = <<>> THEN d ELSE v.chars

\* Math.ceil(a / b) for integers a and b # 0 (-0 is 0)
MathCeilDiv(a, b) ==
    IF b > 0 THEN -((-a) \div b) ELSE -(a \div (-b))

\* Math.floor(a / b) for b > 0
MathFloorDiv(a, b) == a \div b

MathAbs(a) == IF a < 0 THEN -a ELSE a

MathMin(a, b) == IF a < b THEN a ELSE b

----------------------------------------------------------------------------
(* Program constants *)

\* default of itemsPerPage
DefaultItemsPerPage == 3
\* window widths below this are mobile
MobileBreakpoint == 768
\* page buttons shown around the current page on mobile / otherwise
MobileDisplayCount == 3
DesktopDisplayCount == 5

DefaultPrevText == <<"P", "r", "e", "v">>
DefaultNextText == <<"N", "e", "x", "t">>

----------------------------------------------------------------------------
(* The component and the part of the DOM its methods touch, as one record,  *)
(* so that a method is an operator from the record before to the record     *)
(* after.  threw: an exception left the method; the caller stops there.     *)

this ==
    [itemsPerPage |-> itemsPerPage, prevText |-> prevText, nextText |-> nextText,
     currentPage |-> currentPage, totalPages |-> totalPages, items |-> items,
     pageButtons |-> pageButtons, prevDisabled |-> prevDisabled,
     nextDisabled |-> nextDisabled, controlsDisplay |-> controlsDisplay,
     prevLabel |-> prevLabel, nextLabel |-> nextLabel, innerWidth |-> innerWidth,
     dispatched |-> <<>>, threw |-> FALSE,
     listener |-> listener, loads |-> loads, observed |-> <<>>, reentered |-> FALSE]

\* calculateTotalPages() rounding down instead of up
calculateTotalPagesFloor(c) ==
    LET pages == NumberOr(Num(MathFloorDiv(Len(c.items), c.itemsPerPage)), 1)
        c1 == [c EXCEPT !.totalPages = pages]
    IN IF c1.currentPage > c1.totalPages
       THEN [c1 EXCEPT !.currentPage = c1.totalPages]
       ELSE c1

\* calculateTotalPages()
calculateTotalPages(c) ==
    LET pages == NumberOr(Num(MathCeilDiv(Len(c.items), c.itemsPerPage)), 1)
        c1 == [c EXCEPT !.totalPages = pages]
    IN IF c1.currentPage > c1.totalPages
       THEN [c1 EXCEPT !.currentPage = c1.totalPages]
       ELSE c1

\* pageNumber === n for a parsed pageNumber (NaN equals nothing)
NumberIs(pageNumber, n) == ~pageNumber.isNaN /\ pageNumber.n = n

\* shouldShowPageNumber() showing only the pages within range of the current one
shouldShowPageNumberRangeOnly(c, pageNumber, displayCount) ==
    LET range == MathFloorDiv(displayCount, 2)
    IN ~pageNumber.isNaN /\ MathAbs(pageNumber.n - c.currentPage) <= range

\* shouldShowPageNumber() with the range taken as displayCount itself
shouldShowPageNumberWide(c, pageNumber, displayCount) ==
    IF \/ NumberIs(pageNumber, 1)
       \/ NumberIs(pageNumber, c.totalPages)
       \/ NumberIs(pageNumber, c.currentPage)
    THEN TRUE
    ELSE ~pageNumber.isNaN /\ MathAbs(pageNumber.n - c.currentPage) <= displayCount

\* shouldShowPageNumber(pageNumber, displayCount), pageNumber as parsed
shouldShowPageNumber(c, pageNumber, displayCount) ==
    IF \/ NumberIs(pageNumber, 1)
       \/ NumberIs(pageNumber, c.totalPages)
       \/ NumberIs(pageNumber, c.currentPage)
    THEN TRUE
    ELSE LET range == MathFloorDiv(displayCount, 2)
         IN ~pageNumber.isNaN /\ MathAbs(pageNumber.n - c.currentPage) <= range

\* updatePaginationVisibility()
updatePaginationVisibility(c) ==
    LET isMobile == c.innerWidth < MobileBreakpoint
        displayCount == IF isMobile THEN MobileDisplayCount ELSE DesktopDisplayCount
        show(button) ==
            [button EXCEPT !.display =
                IF shouldShowPageNumber(c, parseDataset(button.page), displayCount)
                THEN "" ELSE "none"]
    IN [c EXCEPT !.pageButtons = [b \in DOMAIN c.pageButtons |-> show(c.pageButtons[b])]]

\* createPageNumbers() whose loop runs one page too far
createPageNumbersOneMore(c) ==
    LET button(i) ==
            [page |-> toDataset(i), active |-> i = c.currentPage,
             ariaCurrent |-> i = c.currentPage, display |-> ""]
        c1 == [c EXCEPT !.pageButtons = [i \in 1..(c.totalPages + 1) |-> button(i)]]
    IN updatePaginationVisibility(c1)

\* createPageNumbers() that does not empty the container first
createPageNumbersAppend(c) ==
    LET button(i) ==
            [page |-> toDataset(i), active |-> i = c.currentPage,
             ariaCurrent |-> i = c.currentPage, display |-> ""]
        c1 == [c EXCEPT !.pageButtons = @ \o [i \in 1..c.totalPages |-> button(i)]]
    IN updatePaginationVisibility(c1)

\* createPageNumbers(): the container is emptied, one button per page
createPageNumbers(c) ==
    LET button(i) ==
            [page |-> toDataset(i), active |-> i = c.currentPage,
             ariaCurrent |-> i = c.currentPage, display |-> ""]
        c1 == [c EXCEPT !.pageButtons = [i \in 1..c.totalPages |-> button(i)]]
    IN updatePaginationVisibility(c1)

\* updateButtonStates()
updateButtonStates(c) ==
    [c EXCEPT !.prevDisabled = (c.currentPage = 1),
              !.nextDisabled = (c.currentPage = c.totalPages)]

\* updateActivePageNumber() that marks the current button and clears no other
updateActivePageNumberKeep(c) ==
    LET mark(button) ==
            LET isActive == NumberIs(parseDataset(button.page), c.currentPage)
            IN [button EXCEPT !.active = @ \/ isActive, !.ariaCurrent = @ \/ isActive]
    IN [c EXCEPT !.pageButtons = [b \in DOMAIN c.pageButtons |-> mark(c.pageButtons[b])]]

\* updateActivePageNumber()
updateActivePageNumber(c) ==
    LET mark(button) ==
            LET isActive == NumberIs(parseDataset(button.page), c.currentPage)
            IN [button EXCEPT !.active = isActive, !.ariaCurrent = isActive]
    IN [c EXCEPT !.pageButtons = [b \in DOMAIN c.pageButtons |-> mark(c.pageButtons[b])]]

\* the detail with endIndex not clipped to the number of items
PageChangeDetailUnclipped(c, startIndex, endIndex) ==
    [currentPage |-> c.currentPage, totalPages |-> c.totalPages,
     itemsPerPage |-> c.itemsPerPage, startIndex |-> startIndex,
     endIndex |-> endIndex]

\* the detail of the pagechange event
PageChangeDetail(c, startIndex, endIndex) ==
    [currentPage |-> c.currentPage, totalPages |-> c.totalPages,
     itemsPerPage |-> c.itemsPerPage, startIndex |-> startIndex,
     endIndex |-> MathMin(endIndex, Len(c.items))]

\* what the renderer shows of the component c
ViewOf(c) ==
    [currentPage |-> c.currentPage, totalPages |-> c.totalPages, items |-> c.items,
     pageButtons |-> c.pageButtons, prevDisabled |-> c.prevDisabled,
     nextDisabled |-> c.nextDisabled, controlsDisplay |-> c.controlsDisplay]

\* updateDisplay(): const startIndex, const endIndex
startIndexOf(c) == (c.currentPage - 1) * c.itemsPerPage
endIndexOf(c) == startIndexOf(c) + c.itemsPerPage

\* updateDisplay(): every item hidden, then those of the current page shown;
\* index i of the code is position i + 1 of the sequence
showCurrentPage(c) ==
    [c EXCEPT !.items = [i \in DOMAIN c.items |->
        IF startIndexOf(c) <= i - 1 /\ i - 1 < endIndexOf(c) THEN "" ELSE "none"]]

\* updateDisplay(): items[i] is undefined for i < 0, so the first pass of the
\* loop throws a TypeError when it starts below 0, every item hidden
showThrows(c) ==
    startIndexOf(c) < endIndexOf(c) /\ startIndexOf(c) < Len(c.items) /\ startIndexOf(c) < 0

\* a listener that reads the event and the component: what it sees is recorded
observingListener(c, detail) ==
    [c EXCEPT !.observed = Append(@, [detail |-> detail, view |-> ViewOf(c)])]

\* the component after a call made by a listener, inside the handler that
\* dispatched: a call that changed the view has re-entered the handler
calledInside(c, after) ==
    IF ViewOf(after) = ViewOf(c) THEN after ELSE [after EXCEPT !.reentered = TRUE]

RECURSIVE goToPage(_, _)

\* the listeners of a redirecting page, in the order they were added: the first
\* sends every page change back to page 1 by goToPage(1), the second observes.
\* The event of that goToPage(1) is delivered to both before it returns; on
\* it the first calls goToPage(1) again, which returns at once.
redirectingListeners(c, detail) ==
    observingListener(calledInside(c, goToPage(c, 1)), detail)

\* the listener of the README's AJAX integration: loadPageData(currentPage)
\* starts a fetch and returns; refresh() is called when the fetch has resolved
loadingListener(c, detail) ==
    [c EXCEPT !.loads = @ + 1]

\* the page's listeners of pagechange
pagechangeListener(c, detail) ==
    CASE c.listener = "observe" -> observingListener(c, detail)
      [] c.listener = "redirect" -> redirectingListeners(c, detail)
      [] c.listener = "load" -> loadingListener(c, detail)
      [] OTHER -> c

\* dispatchEvent(new CustomEvent("pagechange", ...)): the event is recorded and
\* the listeners run before dispatchEvent returns
dispatchPageChange(c, startIndex, endIndex) ==
    pagechangeListener(
        [c EXCEPT !.dispatched = Append(@, PageChangeDetail(c, startIndex, endIndex))],
        PageChangeDetail(c, startIndex, endIndex))

\* updateDisplay() whose loop runs while i <= endIndex
updateDisplayOffByOne(c) ==
    LET startIndex == (c.currentPage - 1) * c.itemsPerPage
        endIndex == startIndex + c.itemsPerPage
        shown == [i \in DOMAIN c.items |->
                    IF startIndex <= i - 1 /\ i - 1 <= endIndex THEN "" ELSE "none"]
        c1 == [c EXCEPT !.items = shown]
        c2 == updateButtonStates(c1)
        c3 == updateActivePageNumber(c2)
        c4 == updatePaginationVisibility(c3)
    IN dispatchPageChange(c4, startIndex, endIndex)

\* updateDisplay()
updateDisplay(c) ==
    IF showThrows(c)
    THEN [c EXCEPT !.items = [i \in DOMAIN c.items |-> "none"], !.threw = TRUE]
    ELSE dispatchPageChange(
            updatePaginationVisibility(updateActivePageNumber(updateButtonStates(
                showCurrentPage(c)))),
            startIndexOf(c), endIndexOf(c))

\* updatePagination()
updatePagination(c) ==
    LET c1 == calculateTotalPages(c)
        c2 == createPageNumbers(c1)
        c3 == updateDisplay(c2)
    IN IF c3.threw THEN c3
       ELSE [c3 EXCEPT !.controlsDisplay = IF c3.totalPages > 1 THEN "flex" ELSE "none"]

\* updateButtonText()
updateButtonText(c) ==
    [c EXCEPT !.prevLabel = c.prevText, !.nextLabel = c.nextText]

\* attributeChangedCallback(name, oldValue, newValue)
attributeChangedCallback(c, name, oldValue, newValue) ==
    IF oldValue # newValue
    THEN LET c1 == CASE name = "items-per-page" ->
                        [c EXCEPT !.itemsPerPage =
                            NumberOr(parseInt(newValue), DefaultItemsPerPage)]
                     [] name = "prev-text" ->
                        [c EXCEPT !.prevText = StringOr(newValue, DefaultPrevText)]
                     [] name = "next-text" ->
                        [c EXCEPT !.nextText = StringOr(newValue, DefaultNextText)]
                     [] OTHER -> c
             c2 == updatePagination(c1)
         IN IF c2.threw THEN c2 ELSE updateButtonText(c2)
    ELSE c

\* initializePagination() that goes back to the first page
initializePaginationReset(c, slotted) ==
    LET c1 == [c EXCEPT !.items = slotted, !.currentPage = 1]
    IN [updatePagination(calculateTotalPages(c1)) EXCEPT !.threw = FALSE]

\* initializePagination(), slotted: the elements now assigned to the items
\* slot.  An exception is caught and logged.
initializePagination(c, slotted) ==
    LET c1 == [c EXCEPT !.items = slotted]
        c2 == IF c1.currentPage < 1 THEN [c1 EXCEPT !.currentPage = 1] ELSE c1
        c3 == calculateTotalPages(c2)
        c4 == updatePagination(c3)
    IN [c4 EXCEPT !.threw = FALSE]

\* goToPage(pageNumber) without the test against totalPages
goToPageUnbounded(c, pageNumber) ==
    IF pageNumber >= 1 /\ pageNumber # c.currentPage
    THEN updateDisplay([c EXCEPT !.currentPage = pageNumber])
    ELSE c

\* goToPage(pageNumber) without the test that the page differs
goToPageAlways(c, pageNumber) ==
    IF pageNumber >= 1 /\ pageNumber <= c.totalPages
    THEN updateDisplay([c EXCEPT !.currentPage = pageNumber])
    ELSE c

\* goToPage(pageNumber)
goToPage(c, pageNumber) ==
    IF pageNumber >= 1 /\ pageNumber <= c.totalPages /\ pageNumber # c.currentPage
    THEN updateDisplay([c EXCEPT !.currentPage = pageNumber])
    ELSE c

\* refresh()
refresh(c, slotted) == initializePagination(c, slotted)

\* the click handler of .prev-btn
prevClick(c) ==
    IF c.currentPage > 1
    THEN updateDisplay([c EXCEPT !.currentPage = c.currentPage - 1])
    ELSE c

\* the click handler of .next-btn
nextClick(c) ==
    IF c.currentPage < c.totalPages
    THEN updateDisplay([c EXCEPT !.currentPage = c.currentPage + 1])
    ELSE c

\* the click handler of .numbers-container, the target a .page-number button
pageNumberClick(c, button) ==
    LET pageNumber == parseDataset(button.page)
    IN IF ~NumberIs(pageNumber, c.currentPage) /\ ~pageNumber.isNaN
       THEN updateDisplay([c EXCEPT !.currentPage = pageNumber.n])
       ELSE c

\* the resize listener redrawing the whole page
resizeListenerRedisplay(c) == updateDisplay(c)

\* the resize listener of window
resizeListener(c) == updatePaginationVisibility(c)

\* connectedCallback's timer callback
connectedTimeout(c, slotted) == updateButtonText(initializePagination(c, slotted))

----------------------------------------------------------------------------------------------------------------------------------------
(* Inputs *)

\* observedAttributes
observedAttributes == {"items-per-page", "prev-text", "next-text"}

\* raw values of an attribute, by kind: absent, empty, non-numeric, zero,
\* a negative integer, positive integers, a label
Absent == Null
Empty == Str(<<>>)
NonNumeric == Str(<<"a", "b", "c">>)
Zero == Str(<<"0">>)
Negative == Str(<<"-", "2">>)
One == Str(<<"1">>)
Five == Str(<<"5">>)
Label == Str(<<"G", "o">>)

\* what the host does to the component: the raw values it gives each
\* attribute and the numbers of elements it slots.  The navigation host
\* repartitions up to MaxItems elements; the configuration host tries every
\* kind of raw value on up to MaxConfigItems elements.
NavigationHost ==
    [values |-> [name \in observedAttributes |->
                    CASE name = "items-per-page" -> {Absent, Negative, One, Five}
                      [] name = "prev-text" -> {Absent, Label}
                      [] OTHER -> {Absent}],
     counts |-> 0..MaxItems]

ConfigurationHost ==
    [values |-> [name \in observedAttributes |->
                    CASE name = "items-per-page" ->
                            {Absent, Empty, NonNumeric, Zero, Negative, One, Five}
                      [] OTHER -> {Absent, Empty, Label}],
     counts |-> 0..MaxConfigItems]

\* window widths on both sides of the breakpoint
Widths == {MobileBreakpoint - 1, MobileBreakpoint}

\* arguments of goToPage: below 1, every page, above the last page
PageArguments(c) == 0..((IF c.totalPages > 0 THEN c.totalPages ELSE 0) + 1)

\* the attaching host: page sizes of every kind on up to MaxAttachmentItems
\* elements
AttachmentHost ==
    [values |-> [name \in observedAttributes |->
                    CASE name = "items-per-page" ->
                            {Absent, NonNumeric, Zero, Negative, One}
                      [] OTHER -> {Absent}],
     counts |-> 0..MaxAttachmentItems]

\* the observed host: valid page sizes on up to MaxObserverItems elements
ObserverHost ==
    [values |-> [name \in observedAttributes |->
                    CASE name = "items-per-page" -> {Absent, One}
                      [] OTHER -> {Absent}],
     counts |-> 0..MaxObserverItems]

\* what the page's listener of pagechange may do
Listeners == {"observe", "redirect", "load"}

\* the elements assigned to the items slot when the host has n of them: the
\* elements of the old snapshot keep their style, added ones are displayed
SlottedElements(old, n) == [i \in 1..n |-> IF i <= Len(old) THEN old[i] ELSE ""]

----------------
(* The state machine *)

\* constructor(): the defaults, then render() and setupEventListeners()
Init ==
    /\ itemsPerPage = DefaultItemsPerPage
    /\ prevText = DefaultPrevText
    /\ nextText = DefaultNextText
    /\ currentPage = 1
    /\ totalPages = 1
    /\ items = <<>>
    /\ pageButtons = <<>>
    /\ prevDisabled = FALSE
    /\ nextDisabled = FALSE
    /\ controlsDisplay = "none"
    /\ prevLabel = DefaultPrevText
    /\ nextLabel = DefaultNextText
    /\ attributes = [name \in observedAttributes |-> Null]
    /\ innerWidth \in Widths
    /\ timers = 0
    /\ dispatched = <<>>
    /\ last = [op |-> "constructor", arg |-> 0, threw |-> FALSE]
    /\ listener = "none"
    /\ loads = 0
    /\ observed = <<>>
    /\ reentered = FALSE

\* the component after a handler, written back; a handler that would leave
\* more than MaxLoads fetches in flight is not taken
Commit(c, op, arg) ==
    /\ c.loads <= MaxLoads
    /\ itemsPerPage' = c.itemsPerPage
    /\ prevText' = c.prevText
    /\ nextText' = c.nextText
    /\ currentPage' = c.currentPage
    /\ totalPages' = c.totalPages
    /\ items' = c.items
    /\ pageButtons' = c.pageButtons
    /\ prevDisabled' = c.prevDisabled
    /\ nextDisabled' = c.nextDisabled
    /\ controlsDisplay' = c.controlsDisplay
    /\ prevLabel' = c.prevLabel
    /\ nextLabel' = c.nextLabel
    /\ innerWidth' = c.innerWidth
    /\ dispatched' = c.dispatched
    /\ last' = [op |-> op, arg |-> arg, threw |-> c.threw]
    /\ listener' = c.listener
    /\ loads' = c.loads
    /\ observed' = c.observed
    /\ reentered' = c.reentered

\* the host sets or removes an observed attribute
AttributeChanged(host) ==
    \E name \in observedAttributes : \E newValue \in host.values[name] :
        /\ attributes' = [attributes EXCEPT ![name] = newValue]
        /\ Commit(attributeChangedCallback(this, name, attributes[name], newValue),
                  "attributeChanged", [name |-> name, value |-> newValue])
        /\ UNCHANGED timers

\* connectedCallback(): the initialization is left to a timer
Connected ==
    /\ timers < MaxTimers
    /\ timers' = timers + 1
    /\ Commit(this, "connected", 0)
    /\ UNCHANGED attributes

\* the timer of connectedCallback runs, the host having n slotted elements
ConnectedTimeout(host) ==
    \E n \in host.counts :
        /\ timers > 0
        /\ timers' = timers - 1
        /\ Commit(connectedTimeout(this, SlottedElements(items, n)), "connectedTimeout", n)
        /\ UNCHANGED attributes

\* refresh(), the host having n slotted elements
Refresh(host) ==
    \E n \in host.counts :
        /\ Commit(refresh(this, SlottedElements(items, n)), "refresh", n)
        /\ UNCHANGED <<attributes, timers>>

\* goToPage(pageNumber)
GoToPage ==
    \E pageNumber \in PageArguments(this) :
        /\ Commit(goToPage(this, pageNumber), "goToPage", pageNumber)
        /\ UNCHANGED <<attributes, timers>>

\* a click on .prev-btn
PrevClick ==
    /\ Commit(prevClick(this), "prevClick", 0)
    /\ UNCHANGED <<attributes, timers>>

\* a click on .next-btn
NextClick ==
    /\ Commit(nextClick(this), "nextClick", 0)
    /\ UNCHANGED <<attributes, timers>>

\* a click on one of the rendered page-number buttons
PageNumberClick ==
    \E b \in DOMAIN pageButtons :
        /\ Commit(pageNumberClick(this, pageButtons[b]), "pageNumberClick", b)
        /\ UNCHANGED <<attributes, timers>>

\* the window is resized to width w
Resize ==
    \E w \in Widths :
        /\ Commit(resizeListener([this EXCEPT !.innerWidth = w]), "resize", w)
        /\ UNCHANGED <<attributes, timers>>

\* the page calls addEventListener('pagechange', ...) for its listeners
AddEventListener ==
    /\ listener = "none"
    /\ listener' \in Listeners
    /\ UNCHANGED <<itemsPerPage, prevText, nextText, currentPage, totalPages, items,
                   pageButtons, prevDisabled, nextDisabled, controlsDisplay, prevLabel,
                   nextLabel, attributes, innerWidth, timers, dispatched, last,
                   loads, observed, reentered>>

\* a fetch of loadPageData() resolves: the slotted elements are replaced by
\* the n elements of the response and refresh() is called
LoadCompleted(host) ==
    \E n \in host.counts :
        /\ loads > 0
        /\ Commit(refresh([this EXCEPT !.loads = @ - 1], SlottedElements(<<>>, n)),
                  "loadPageData", n)
        /\ UNCHANGED <<attributes, timers>>

Step(host) ==
    \/ AttributeChanged(host)
    \/ Connected
    \/ ConnectedTimeout(host)
    \/ Refresh(host)
    \/ GoToPage
    \/ PrevClick
    \/ NextClick
    \/ PageNumberClick
    \/ Resize

Next == Step(NavigationHost)

NextConfig == Step(ConfigurationHost)

Spec == Init /\ [][Next]_vars

SpecConfig == Init /\ [][NextConfig]_vars

\* attachments on the attaching host
NextAttachment == Step(AttachmentHost)

\* the step of ConnectedTimeout, by what it does to the task queue; it is
\* enabled exactly when a timer is pending
TimerRuns == timers > 0 /\ timers' = timers - 1

\* the host's task queue runs every timer callback
SpecAttachment ==
    /\ Init
    /\ [][NextAttachment]_vars
    /\ WF_timers(TimerRuns)

\* a page with a listener on the observed host
NextObserver ==
    \/ Step(ObserverHost)
    \/ AddEventListener
    \/ LoadCompleted(ObserverHost)

\* the step of LoadCompleted, by the handler it records; it is enabled exactly
\* when a fetch is in flight
LoadResolves ==
    /\ loads > 0
    /\ \E n \in ObserverHost.counts :
          last' = [op |-> "loadPageData", arg |-> n, threw |-> FALSE]

\* every fetch of loadPageData() resolves
SpecObserver ==
    /\ Init
    /\ [][NextObserver]_vars
    /\ WF_last(LoadResolves)

----------------------------------------------------------------------------
(* Properties *)

\* the component after a step is c, whatever the host's own state
Outcome(c) ==
    /\ itemsPerPage' = c.itemsPerPage
    /\ prevText' = c.prevText
    /\ nextText' = c.nextText
    /\ currentPage' = c.currentPage
    /\ totalPages' = c.totalPages
    /\ items' = c.items
    /\ pageButtons' = c.pageButtons
    /\ prevDisabled' = c.prevDisabled
    /\ nextDisabled' = c.nextDisabled
    /\ controlsDisplay' = c.controlsDisplay
    /\ prevLabel' = c.prevLabel
    /\ nextLabel' = c.nextLabel
    /\ dispatched' = c.dispatched

\* the indices (of the code, from 0) of the items of the snapshot now displayed
VisibleIndices == {i \in 0..(Len(items) - 1) : items[i + 1] = ""}

\* the least k with k * perPage >= count, for perPage >= 1: ceil(count / perPage)
Ceiling(count, perPage) == CHOOSE k \in 0..count : k * perPage >= count /\ (k - 1) * perPage < count

Maximum(a, b) == IF a >= b THEN a ELSE b

\* v parses to an integer >= 1
ParsesToPositive(v) == ~parseInt(v).isNaN /\ parseInt(v).n >= 1

\* C1: after every transition 1 <= currentPage <= totalPages.
C1_CurrentPageInRange == 1 <= currentPage /\ currentPage <= totalPages

\* C2: after an items-per-page attribute change with any raw value the stored
\* itemsPerPage is an integer >= 1, and it is the default 3 for every raw value
\* that does not parse to an integer >= 1.
C2_ItemsPerPageValidated ==
    /\ itemsPerPage >= 1
    /\ (/\ last.op = "attributeChanged"
        /\ last.arg.name = "items-per-page"
        /\ ~ParsesToPositive(last.arg.value)) => itemsPerPage = DefaultItemsPerPage

\* C3: an attribute change (items-per-page, prev-text, next-text) dispatches no
\* pagechange event.
C3_ReconfigureSilent == last.op = "attributeChanged" => dispatched = <<>>

\* C4: refresh(), and the deferred initialization after attachment, dispatch no
\* pagechange event.
C4_RefreshSilent == last.op \in {"refresh", "connectedTimeout"} => dispatched = <<>>

\* C5: goToPage(p) with p < 1, p > totalPages or p = currentPage changes nothing
\* of the component or its view and dispatches no event.
C5_GoToPageNoOp ==
    [][(/\ last'.op = "goToPage"
        /\ \/ last'.arg < 1
           \/ last'.arg > totalPages
           \/ last'.arg = currentPage) => Outcome(this)]_vars

\* C5 happens: a goToPage beyond the last page of several has run
C5_Witness ==
    /\ last.op = "goToPage"
    /\ last.arg > totalPages
    /\ totalPages > 1
    /\ currentPage = 2
    /\ dispatched = <<>>

\* C6: goToPage(p) with 1 <= p <= totalPages and p # currentPage sets currentPage
\* to p and dispatches exactly one event, its detail {currentPage: p, totalPages,
\* itemsPerPage, startIndex: (p-1)*itemsPerPage, endIndex: min(startIndex +
\* itemsPerPage, items.length)}.
C6_GoToPageNavigates ==
    [][(/\ last'.op = "goToPage"
        /\ 1 <= last'.arg
        /\ last'.arg <= totalPages
        /\ last'.arg # currentPage) =>
            LET p == last'.arg
                startIndex == (p - 1) * itemsPerPage
            IN /\ currentPage' = p
               /\ dispatched' =
                    <<[currentPage |-> p, totalPages |-> totalPages,
                       itemsPerPage |-> itemsPerPage, startIndex |-> startIndex,
                       endIndex |-> IF startIndex + itemsPerPage < Len(items)
                                    THEN startIndex + itemsPerPage
                                    ELSE Len(items)]>>
               /\ UNCHANGED <<totalPages, itemsPerPage>>
               /\ Len(items') = Len(items)]_vars

\* C6 happens: 10 items, 3 per page, goToPage(2) shows the items 3, 4, 5 and
\* dispatches {2, 4, 3, 3, 6}
C6_Witness ==
    /\ last.op = "goToPage"
    /\ last.arg = 2
    /\ Len(items) = 10
    /\ itemsPerPage = 3
    /\ currentPage = 2
    /\ VisibleIndices = {3, 4, 5}
    /\ dispatched = <<[currentPage |-> 2, totalPages |-> 4, itemsPerPage |-> 3,
                       startIndex |-> 3, endIndex |-> 6]>>

\* C7: with itemsPerPage >= 1 the computed totalPages is max(1, ceil(count /
\* itemsPerPage)) for every number of items: 1 for none, no extra page for an
\* exact multiple.
C7_TotalPagesFormula ==
    itemsPerPage >= 1 =>
        totalPages = Maximum(1, Ceiling(Len(items), itemsPerPage))

\* C7 happens: 9 items, 3 per page, 3 pages computed by a refresh
C7_Witness ==
    /\ last.op = "refresh"
    /\ Len(items) = 9
    /\ itemsPerPage = 3
    /\ totalPages = 3

\* C8: the items displayed are exactly those of the snapshot at the indices i
\* with (currentPage-1)*itemsPerPage <= i < currentPage*itemsPerPage.
C8_VisibleRange ==
    VisibleIndices =
        {i \in 0..(Len(items) - 1) :
            (currentPage - 1) * itemsPerPage <= i /\ i < currentPage * itemsPerPage}

\* C8 happens: the last, partial page of 10 items by 3 shows the item 9 alone
C8_Witness ==
    /\ last.op = "nextClick"
    /\ Len(items) = 10
    /\ itemsPerPage = 3
    /\ currentPage = 4
    /\ VisibleIndices = {9}

\* C9: an attribute change and a refresh change currentPage only by clamping:
\* with c the page before and T the totalPages computed, currentPage is c when
\* c <= T and T when c > T, never reset to 1.
C9_ClampOnly ==
    [][last'.op \in {"attributeChanged", "refresh", "connectedTimeout"} =>
        currentPage' = IF currentPage <= totalPages' THEN currentPage ELSE totalPages']_vars

\* C10: a Prev click is goToPage(currentPage - 1) and a Next click is
\* goToPage(currentPage + 1): the page moves by one, with one event, iff
\* currentPage > 1 (Prev) or currentPage < totalPages (Next); otherwise nothing
\* changes and nothing is dispatched.
C10_PrevNextAsGoToPage ==
    [][/\ last'.op = "prevClick" =>
            /\ Outcome(goToPage(this, currentPage - 1))
            /\ IF currentPage > 1
               THEN currentPage' = currentPage - 1 /\ Len(dispatched') = 1
               ELSE Outcome(this)
       /\ last'.op = "nextClick" =>
            /\ Outcome(goToPage(this, currentPage + 1))
            /\ IF currentPage < totalPages
               THEN currentPage' = currentPage + 1 /\ Len(dispatched') = 1
               ELSE Outcome(this)]_vars

\* the page numbers of the rendered buttons, in order
ButtonPages == [b \in DOMAIN pageButtons |-> parseDataset(pageButtons[b].page).n]

\* the page numbers of the rendered buttons that are displayed
VisiblePages == {ButtonPages[b] : b \in {x \in DOMAIN pageButtons : pageButtons[x].display = ""}}

\* the displayCount of the window width w
DisplayCountOf(w) == IF w < MobileBreakpoint THEN MobileDisplayCount ELSE DesktopDisplayCount

\* p is in the page-number window of the spec for displayCount
InWindow(p, displayCount) ==
    \/ p = 1
    \/ p = totalPages
    \/ p = currentPage
    \/ (IF p >= currentPage THEN p - currentPage ELSE currentPage - p) <= displayCount \div 2

\* C11: a resize changes only the display of the page-number buttons: the
\* fields, the items shown, the prev/next disabled state and the active button
\* are unchanged, nothing is dispatched, and the same resize applied again
\* changes nothing more.
C11_ResizeOnlyVisibility ==
    [][last'.op = "resize" =>
        /\ UNCHANGED <<itemsPerPage, prevText, nextText, currentPage, totalPages,
                       items, prevDisabled, nextDisabled, controlsDisplay,
                       prevLabel, nextLabel>>
        /\ dispatched' = <<>>
        /\ DOMAIN pageButtons' = DOMAIN pageButtons
        /\ \A b \in DOMAIN pageButtons :
              [pageButtons'[b] EXCEPT !.display = ""] = [pageButtons[b] EXCEPT !.display = ""]
        /\ resizeListener(this)'.pageButtons = pageButtons']_vars

\* C11 happens: a resize to the mobile width has hidden a button two pages away
C11_Witness ==
    /\ last.op = "resize"
    /\ last.arg < MobileBreakpoint
    /\ totalPages = 10
    /\ currentPage = 5
    /\ pageButtons[3].display = "none"
    /\ pageButtons[4].display = ""

\* C12: for displayCount 3 and 5, the page numbers 1, totalPages and
\* currentPage are shown, and every rendered button of one of them is displayed.
C12_WindowInclusion ==
    /\ \A displayCount \in {MobileDisplayCount, DesktopDisplayCount} :
          \A p \in {1, totalPages, currentPage} :
              shouldShowPageNumber(this, Num(p), displayCount)
    /\ \A b \in DOMAIN pageButtons :
          ButtonPages[b] \in {1, totalPages, currentPage} => pageButtons[b].display = ""

\* C12 happens: page 10 is displayed far from the current page 5, page 8 is not
C12_Witness ==
    /\ totalPages = 10
    /\ currentPage = 5
    /\ innerWidth < MobileBreakpoint
    /\ pageButtons[10].display = ""
    /\ pageButtons[1].display = ""
    /\ pageButtons[8].display = "none"

\* C13: for displayCount 3 and 5 and every page p of 1..totalPages, p is shown
\* iff p = 1, p = totalPages, p = currentPage or |p - currentPage| <=
\* floor(displayCount / 2); after a resize the buttons displayed are exactly
\* those pages.
C13_WindowFormula ==
    /\ \A displayCount \in {MobileDisplayCount, DesktopDisplayCount} :
          \A p \in 1..totalPages :
              shouldShowPageNumber(this, parseDataset(toDataset(p)), displayCount)
                  <=> InWindow(p, displayCount)
    /\ last.op = "resize" =>
          VisiblePages = {ButtonPages[b] : b \in {x \in DOMAIN pageButtons :
                              InWindow(ButtonPages[x], DisplayCountOf(innerWidth))}}

\* C13 happens: displayCount 3, 10 pages, page 5: the buttons 1, 4, 5, 6, 10
C13_Witness ==
    /\ last.op = "resize"
    /\ DisplayCountOf(innerWidth) = 3
    /\ totalPages = 10
    /\ currentPage = 5
    /\ Len(pageButtons) = 10
    /\ VisiblePages = {1, 4, 5, 6, 10}

\* ceil(count / perPage) for count >= 0 and perPage # 0
CeilingOfQuotient(count, perPage) ==
    IF perPage > 0 THEN Ceiling(count, perPage)
    ELSE CHOOSE k \in (-count)..0 : k * perPage <= count /\ (k - 1) * perPage > count

\* C14: the control strip is shown iff totalPages > 1; with no item totalPages
\* is 1, the strip is hidden, and a Prev or Next click changes nothing.
C14_ControlsShown ==
    /\ controlsDisplay # "none" <=> totalPages > 1
    /\ Len(items) = 0 =>
          /\ totalPages = 1
          /\ controlsDisplay = "none"
          /\ ViewOf(nextClick(this)) = ViewOf(this)
          /\ ViewOf(prevClick(this)) = ViewOf(this)

\* C15: a refresh with the item sequence the component already holds changes
\* nothing of currentPage, totalPages and the view: refresh twice is refresh
\* once.
C15_RefreshIdempotent ==
    last.op = "refresh" => ViewOf(refresh(this, items)) = ViewOf(this)

\* C15 happens: a refresh that clamped page 4 of 10 items to the 2 pages of 4
\* items
C15_Witness ==
    /\ last.op = "refresh"
    /\ last.arg = 4
    /\ Len(items) = 4
    /\ itemsPerPage = 3
    /\ currentPage = 2
    /\ VisibleIndices = {3}

\* C16: every dispatched detail has 0 <= startIndex <= endIndex <=
\* items.length and endIndex - startIndex <= itemsPerPage, and endIndex -
\* startIndex is the number of items displayed.
C16_DetailBounds ==
    \A e \in DOMAIN dispatched :
        /\ 0 <= dispatched[e].startIndex
        /\ dispatched[e].startIndex <= dispatched[e].endIndex
        /\ dispatched[e].endIndex <= Len(items)
        /\ dispatched[e].endIndex - dispatched[e].startIndex <= itemsPerPage
        /\ dispatched[e].endIndex - dispatched[e].startIndex = Cardinality(VisibleIndices)

\* C17: the stored totalPages is max(1, ceil(items.length / itemsPerPage)) of
\* the current snapshot and the current itemsPerPage in every state.
C17_TotalPagesFresh ==
    totalPages = Maximum(1, CeilingOfQuotient(Len(items), itemsPerPage))

\* the page numbers 1..totalPages in order
AllPages == [p \in 1..totalPages |-> p]

\* the rendered buttons that are active
ActiveButtons == {b \in DOMAIN pageButtons : pageButtons[b].active}

\* updatePagination() has not run yet: no button is rendered for the one page
NothingRendered == pageButtons = <<>> /\ totalPages = 1

\* a click on every rendered button is goToPage of its page, lands in
\* 1..totalPages and dispatches one event iff the page differs
ClickIsGoToPage ==
    \A b \in DOMAIN pageButtons :
        LET clicked == pageNumberClick(this, pageButtons[b])
        IN /\ clicked = goToPage(this, ButtonPages[b])
           /\ clicked.currentPage \in 1..totalPages
           /\ Len(clicked.dispatched) = IF ButtonPages[b] # currentPage THEN 1 ELSE 0

\* C18 as stated: after every transition the rendered page-number buttons are
\* exactly 1..totalPages, and a click on button N is goToPage(N).
C18_ButtonsAfterEveryTransition ==
    last.op # "constructor" => ButtonPages = AllPages /\ ClickIsGoToPage

\* C18 amended: the rendered page-number buttons are exactly 1..totalPages, or
\* none at all while updatePagination() has not run (totalPages is then 1; a
\* refresh always renders them); a click on button N is goToPage(N): it never
\* leaves 1..totalPages and dispatches one event iff N # currentPage.
C18_PageClickAsGoToPage ==
    /\ ButtonPages = AllPages \/ NothingRendered
    /\ last.op \in {"refresh", "connectedTimeout"} => ButtonPages = AllPages
    /\ ClickIsGoToPage

\* C18 happens: a click on button 3 of 4 has moved to page 3 with one event
C18_Witness ==
    /\ last.op = "pageNumberClick"
    /\ last.arg = 3
    /\ totalPages = 4
    /\ currentPage = 3
    /\ Len(dispatched) = 1
    /\ dispatched[1].currentPage = 3

\* C19: in every reachable state, the constructed one included, Prev is
\* enabled iff currentPage > 1 and Next is enabled iff currentPage < totalPages.
C19_PrevNextEnabled ==
    /\ ~prevDisabled <=> currentPage > 1
    /\ ~nextDisabled <=> currentPage < totalPages

DeliveredConsistent(o) ==
    LET d == o.detail
        v == o.view
        page(b) == parseDataset(v.pageButtons[b].page).n
        distance(b) == IF page(b) >= d.currentPage THEN page(b) - d.currentPage
                       ELSE d.currentPage - page(b)
    IN /\ v.currentPage = d.currentPage
       /\ v.totalPages = d.totalPages
       /\ {i \in 0..(Len(v.items) - 1) : v.items[i + 1] = ""} =
            {i \in 0..(Len(v.items) - 1) : d.startIndex <= i /\ i < d.endIndex}
       /\ ~v.prevDisabled <=> d.currentPage > 1
       /\ ~v.nextDisabled <=> d.currentPage < d.totalPages
       /\ \A b \in DOMAIN v.pageButtons :
            /\ v.pageButtons[b].active <=> page(b) = d.currentPage
            /\ v.pageButtons[b].display = "" <=>
                 \/ page(b) \in {1, d.totalPages, d.currentPage}
                 \/ distance(b) <= DisplayCountOf(innerWidth) \div 2
       /\ v.controlsDisplay # "none" <=> d.totalPages > 1

\* C21: at every delivery of a pagechange event to a listener the view already
\* agrees with the payload: the displayed items, the disabled state of Prev
\* and Next, the active page button, the window of page numbers and the
\* display of the controls.
C21_ViewReflectsPayload ==
    \A e \in DOMAIN observed : DeliveredConsistent(observed[e])

\* currentPage, totalPages and the view agree
MutuallyConsistent ==
    /\ 1 <= currentPage /\ currentPage <= totalPages
    /\ totalPages = Maximum(1, Ceiling(Len(items), itemsPerPage))
    /\ VisibleIndices =
        {i \in 0..(Len(items) - 1) :
            (currentPage - 1) * itemsPerPage <= i /\ i < currentPage * itemsPerPage}
    /\ ~prevDisabled <=> currentPage > 1
    /\ ~nextDisabled <=> currentPage < totalPages
    /\ ButtonPages = AllPages
    /\ \A b \in DOMAIN pageButtons :
          /\ pageButtons[b].active <=> ButtonPages[b] = currentPage
          /\ pageButtons[b].display = "" <=>
                InWindow(ButtonPages[b], DisplayCountOf(innerWidth))
    /\ controlsDisplay # "none" <=> totalPages > 1

\* C22: no transition begins while another is in progress, a call the
\* listener makes during the delivery included; and when a handler whose
\* event reached such a listener has returned, currentPage, totalPages and the
\* view agree.
C22_TransitionsAtomic ==
    /\ ~reentered
    /\ (listener = "redirect" /\ dispatched # <<>>) => MutuallyConsistent

\* C23: connectedCallback() runs no initialization itself: it leaves the
\* component as it is and schedules exactly one timer callback; the callback
\* eventually runs, takes the snapshot of the slotted elements, and keeps
\* currentPage when it is a page of the new range, moving it otherwise only to
\* a bound of the range.
C23_DeferredRefresh ==
    /\ [][/\ last'.op = "connected" =>
               /\ timers' = timers + 1
               /\ Outcome(this)
               /\ dispatched' = <<>>
          /\ last'.op = "connectedTimeout" =>
               /\ timers' = timers - 1
               /\ Len(items') = last'.arg
               /\ currentPage \in 1..totalPages' => currentPage' = currentPage
               /\ currentPage' \in {currentPage, 1, totalPages'}]_vars
    /\ (last.op = "connected") ~> (last.op = "connectedTimeout")

\* C23 happens: the timer callback of a later attachment has run on page 3 of
\* 4 and left it there
C23_Witness ==
    /\ last.op = "connectedTimeout"
    /\ timers = 0
    /\ last.arg = 4
    /\ itemsPerPage = 1
    /\ totalPages = 4
    /\ currentPage = 3
    /\ VisibleIndices = {2}

C25_LoadingQuiesces == (loads > 0) ~> (loads = 0)

====
